---- MODULE Spec2Model ----
(***************************************************************************)
(* Message routing, moderation and speech queue of the TF2/DRG chat        *)
(* text-to-speech utility (src/src/main_32bit_full.py), together with the  *)
(* parts of its two speech backends that the routing depends on            *)
(* (src/src/sapi5_direct.py, src/src/dectalk_native.py).                   *)
(*                                                                         *)
(* Chat messages are sequences of one-character strings, so that strip(),  *)
(* lower(), startswith(), split() and the regular expressions of the       *)
(* source are computed on the characters as Python computes them.          *)
(* User names and voice names are atoms.  The audio manager is taken to    *)
(* have initialised (self.audio_manager is not None).                      *)
(***************************************************************************)
EXTENDS Naturals, Sequences, FiniteSets, TLC

\* ------------------------------------------------------------------------
\* Python values
\* ------------------------------------------------------------------------

\* Python's None (a user name or a voice name that is absent).
None == "None"

\* The empty string as a piece of text.
EmptyText == << >>

\* ------------------------------------------------------------------------
\* str methods and the regular-expression pieces the source uses
\* ------------------------------------------------------------------------

UpperLetters == <<"A","B","C","D","E","F","G","H","I","J","K","L","M",
                  "N","O","P","Q","R","S","T","U","V","W","X","Y","Z">>

LowerLetters == <<"a","b","c","d","e","f","g","h","i","j","k","l","m",
                  "n","o","p","q","r","s","t","u","v","w","x","y","z">>

Digits == {"0","1","2","3","4","5","6","7","8","9"}

\* \s of the re module, restricted to the white space a chat line can hold.
WhiteSpace == {" "}

\* [a-zA-Z0-9_]
WordChars ==
    {UpperLetters[i] : i \in 1..26} \cup {LowerLetters[i] : i \in 1..26}
        \cup Digits \cup {"_"}

\* The lower-case letter of each upper-case letter.
ToLower ==
    [c \in {UpperLetters[i] : i \in 1..26} |->
        LowerLetters[CHOOSE i \in 1..26 : UpperLetters[i] = c]]

LowerChar(c) == IF c \in DOMAIN ToLower THEN ToLower[c] ELSE c

\* str.lower()
Lower(s) == [i \in 1..Len(s) |-> LowerChar(s[i])]

\* Number of leading characters of s that belong to the class cls.
RECURSIVE Span(_, _)
Span(s, cls) ==
    IF s # << >> /\ Head(s) \in cls THEN 1 + Span(Tail(s), cls) ELSE 0

Drop(s, n) == SubSeq(s, n + 1, Len(s))

Take(s, n) == SubSeq(s, 1, n)

RECURSIVE RStrip(_)
RStrip(s) ==
    IF s # << >> /\ s[Len(s)] \in WhiteSpace THEN RStrip(Take(s, Len(s) - 1)) ELSE s

\* str.strip()
Strip(s) == RStrip(Drop(s, Span(s, WhiteSpace)))

\* str.startswith(p)
StartsWith(s, p) == Len(s) >= Len(p) /\ Take(s, Len(p)) = p

\* "sub in s" for a non-empty sub
Contains(s, sub) ==
    \E i \in 1..Len(s) : i + Len(sub) - 1 <= Len(s) /\ SubSeq(s, i, i + Len(sub) - 1) = sub

\* str.isdigit()
IsDigitStr(s) == s # << >> /\ \A i \in 1..Len(s) : s[i] \in Digits

\* Index of the first blank of s, 0 when there is none.
FirstBlank(s) ==
    IF \E i \in 1..Len(s) : s[i] = " "
    THEN CHOOSE i \in 1..Len(s) : s[i] = " " /\ \A j \in 1..(i - 1) : s[j] # " "
    ELSE 0

\* s.split(' ', 1)
Split1(s) ==
    IF FirstBlank(s) = 0 THEN <<s>>
    ELSE <<Take(s, FirstBlank(s) - 1), Drop(s, FirstBlank(s))>>

\* s.split(' ', 2)
Split2(s) ==
    IF Len(Split1(s)) = 1 THEN <<s>>
    ELSE <<Split1(s)[1]>> \o Split1(Split1(s)[2])

\* re.match(r'^{head}\s+(\d+)(?:\s+(.*))?$', s): ok, group(1), and
\* "group(2) if group(2) else ''".
MatchNumbered(s, head) ==
    LET r1 == Drop(s, Len(head))
        r2 == Drop(r1, Span(r1, WhiteSpace))
        nd == Span(r2, Digits)
        r3 == Drop(r2, nd)
        ok == /\ StartsWith(s, head)
              /\ Span(r1, WhiteSpace) >= 1
              /\ nd >= 1
              /\ (r3 = << >> \/ Span(r3, WhiteSpace) >= 1)
    IN  [ok |-> ok,
         num |-> IF ok THEN Take(r2, nd) ELSE << >>,
         text |-> IF ok THEN Drop(r3, Span(r3, WhiteSpace)) ELSE << >>]

\* re.match(r'^/([a-zA-Z0-9_]+)(?:\s+(.*))?$', s)
MatchTrigger(s) ==
    LET r1 == Drop(s, 1)
        nw == Span(r1, WordChars)
        r2 == Drop(r1, nw)
        ok == /\ StartsWith(s, <<"/">>)
              /\ nw >= 1
              /\ (r2 = << >> \/ Span(r2, WhiteSpace) >= 1)
    IN  [ok |-> ok,
         trigger |-> IF ok THEN Take(r1, nw) ELSE << >>,
         text |-> IF ok THEN Drop(r2, Span(r2, WhiteSpace)) ELSE << >>]

\* re.match(r'^/v\s+\d+', s)
MatchSlashVNum(s) ==
    LET r1 == Drop(s, 2)
    IN  /\ StartsWith(s, <<"/", "v">>)
        /\ Span(r1, WhiteSpace) >= 1
        /\ Span(Drop(r1, Span(r1, WhiteSpace)), Digits) >= 1

\* group(1) of re.match(r'^/([a-zA-Z0-9_]+)', s), << >> when there is no match
SlashWord(s) ==
    IF StartsWith(s, <<"/">>) THEN Take(Drop(s, 1), Span(Drop(s, 1), WordChars))
    ELSE << >>

\* ------------------------------------------------------------------------
\* Names, voices and configuration
\* ------------------------------------------------------------------------

\* Players who write in the game chat.
Users == {"Alice", "Bob", "Eve"}

\* 'username' of a system announcement (main_32bit_full.py:1596).
ANN == "__announcement__"

\* self.last_speaker before its first assignment: the attribute does not
\* exist (only self.last_speakers is set in __init__), reading it raises
\* AttributeError.
Unset == "<no attribute>"

\* Voices of the OS speech API (self.voices) and the DECtalk profiles.  No
\* name is a substring of another, so apply_voice's partial match finds
\* exactly what its exact match finds.
NativeVoices == {"Microsoft Sam", "Microsoft Mary"}

DECtalkVoices == {"[DECtalk] Perfect Paul"}

\* voice_name.startswith("[DECtalk] ")
IsDECtalkVoice(v) == v \in DECtalkVoices

\* The triggers of self.voice_commands.
TrigV3 == <<"v", " ", "3">>
TrigV5 == <<"v", " ", "5">>
TrigPaul == <<"p", "a", "u", "l">>

VoiceCommandKeys == {TrigV3, TrigV5, TrigPaul}

\* self.voice_commands: "v 3" is a native voice, "v 5" an unconfigured slot
\* (the empty string, as in the default table), "paul" a DECtalk profile.
voice_commands(cmd) ==
    IF cmd = TrigV3 THEN "Microsoft Mary"
    ELSE IF cmd = TrigPaul THEN "[DECtalk] Perfect Paul"
    ELSE ""

\* self.voice_toggle_command.lstrip('/'), with the slash the pattern adds
ToggleHead == <<"/", "v", "t">>

\* get_current_game_config().get('tts_command_prefix', '!tts')
TtsPrefix == <<"!", "t", "t", "s">>

\* config['auto_block_keywords']
AutoBlockKeywords == << <<"b", "a", "d">> >>

\* A keyword list with a word that a moderation command contains.
CommandKeywords == << <<"b", "a", "d">>, <<"s", "t", "o", "p">> >>

\* The announcement templates the settings page saves.
AnnouncementTypes == {"ADMIN ADD", "BLOCK ADD", "BLOCK REMOVE", "AUTOBLOCK"}

DefaultAnnouncements ==
    [t \in AnnouncementTypes |->
        IF t = "ADMIN ADD" THEN <<"is now an admin">>
        ELSE IF t = "BLOCK ADD" THEN <<"blocked, you abused it so you losed it">>
        ELSE IF t = "BLOCK REMOVE" THEN <<"has been unblocked">>
        ELSE <<"blocked, you can't say that">>]

\* One configuration: the settings on_chat_message and the worker read.
\*   auto_block            self.auto_block_var.get()
\*   private_mode          self.private_mode_var.get()
\*   random_voice_enabled  self.random_voice_enabled
\*   announcement_off      the toggle keys config['announcement_enabled'] maps to False
\*   announcements         config['announcements']
\*   default_voice         config['default_voice']
\*   announcement_voice    config['announcement_voice']
\*   dectalk_available     self.dectalk_native.is_available()
\*   random_voice_exclusions  self.random_voice_exclusions
\*   auto_block_keywords   config['auto_block_keywords']
BaseConfig ==
    [auto_block |-> FALSE,
     auto_block_keywords |-> AutoBlockKeywords,
     private_mode |-> FALSE,
     random_voice_enabled |-> FALSE,
     announcement_off |-> {},
     announcements |-> DefaultAnnouncements,
     default_voice |-> "Microsoft Sam",
     announcement_voice |-> "",
     dectalk_available |-> TRUE,
     random_voice_exclusions |-> {}]

\* The configurations the moderation specification starts from.
ModerationConfigs ==
    {[BaseConfig EXCEPT !.auto_block = TRUE],
     [BaseConfig EXCEPT !.auto_block = TRUE,
                        !.announcement_off = {"AUTOBLOCK TRIGGERED"}]}

\* ------------------------------------------------------------------------
\* Bounds of the model
\* ------------------------------------------------------------------------

\* Utterances the speech queue holds at most.
MaxQueue == 2

\* Entries the admin list holds at most.
MaxAdmins == 4

\* Texts waiting in the OS backend's own queue at most.
MaxSapiQueue == 1

\* Chat lines the event source delivers at most.
MaxChat == 3

\* Polls of the worker's completion wait that stand for its 60 s ceiling.
MaxPolls == 2

\* ------------------------------------------------------------------------
\* State
\* ------------------------------------------------------------------------

VARIABLES
    cfg,                      \* the configuration (fixed during a run)
    blocked_listbox,          \* self.blocked_listbox, in list order
    admin_listbox,            \* self.admin_listbox, in list order
    message_queue,            \* self.message_queue (FIFO of utterances)
    currently_speaking_user,  \* self.currently_speaking_user
    last_speaker,             \* self.last_speaker (Unset until first assigned)
    user_voice_preferences,   \* self.user_voice_preferences (None: no entry)
    current_voice,            \* the voice set on the OS backend (set_voice)
    sapi_speech_queue,        \* SAPI5Direct.speech_queue
    sapi_speaking,            \* what worker_sapi.Speak is rendering, or NoMsg
    dectalk,                  \* DECtalkNative: stop_requested, process, stream
    w_pc,                     \* where process_speech_queue is
    w_msg,                    \* its local msg
    w_polls,                  \* its wait_time, in polls
    n_chat,                   \* chat lines delivered so far
    handler,                  \* the "!block" handler, when it runs step by step
    lifecycle,                \* queue_running, is_running and the worker threads
    block_order,              \* history: users in the order they became blocked
    last_op                   \* history: the step taken last

vars ==
    <<cfg, blocked_listbox, admin_listbox, message_queue, currently_speaking_user,
      last_speaker, user_voice_preferences, current_voice, sapi_speech_queue,
      sapi_speaking, dectalk, w_pc, w_msg, w_polls, n_chat, handler,
      lifecycle, block_order, last_op>>

\* An utterance of the speech queue: {'text', 'voice', 'username'}.
\* held_at_stop is history: the worker held the utterance, dequeued and not
\* yet handed to a backend's playback, when an admin's "!stop" was handled.
\* stopped_in_speak is history: the "!stop" was handled while the worker was
\* inside DECtalkNative.speak with the utterance.
Utterance(text, voice, username) ==
    [text |-> text, voice |-> voice, username |-> username, held_at_stop |-> FALSE,
     stopped_in_speak |-> FALSE]

\* No utterance (the worker's msg before its first get, an idle backend).
NoMsg == Utterance(EmptyText, None, None)

\* "x in [listbox.get(i) for i in range(listbox.size())]"
InList(x, lst) == \E i \in 1..Len(lst) : lst[i] = x

\* on_chat_message is not inside its "!block" branch: no temp_messages, no
\* target.  orig and taken are history: the queue as the branch found it and
\* what the worker took from it while the branch ran.
HandlerIdle ==
    [pc |-> "idle", target |-> None, temp |-> << >>, orig |-> << >>, taken |-> << >>]

\* Before the first start_tts: no thread runs process_speech_queue.
NotStarted ==
    [queue_running |-> FALSE, is_running |-> FALSE, joining |-> FALSE, threads |-> << >>]

\* After start_tts, with the one thread whose position is w_pc.
Started ==
    [queue_running |-> TRUE, is_running |-> TRUE, joining |-> FALSE, threads |-> << >>]

\* The shared state as one value, for the handlers below, which map it to
\* the state they leave.  eff and target record what on_chat_message did
\* with the message (history, read by last_op only).
State ==
    [blocked |-> blocked_listbox,
     admins |-> admin_listbox,
     queue |-> message_queue,
     cs |-> currently_speaking_user,
     last |-> last_speaker,
     prefs |-> user_voice_preferences,
     voice |-> current_voice,
     sapi_queue |-> sapi_speech_queue,
     sapi_speaking |-> sapi_speaking,
     dectalk |-> dectalk,
     eff |-> "none",
     target |-> None]

Did(st, eff, target) == [st EXCEPT !.eff = eff, !.target = target]

\* ------------------------------------------------------------------------
\* The speech backends: stop and is_speaking
\* ------------------------------------------------------------------------

\* SAPI5Direct.stop_speech: Skip on worker_sapi ends the sentence being
\* spoken; the backend's own queue is emptied.
sapi_stop_speech(st) ==
    [st EXCEPT !.sapi_queue = << >>, !.sapi_speaking = NoMsg]

\* DECtalkNative.stop_speech: sets stop_requested, kills say.exe if it runs,
\* closes the audio stream if one is open.
dectalk_stop_speech(d) ==
    [stop_requested |-> TRUE,
     process |-> IF d.process = "running" THEN "killed" ELSE d.process,
     stream |-> IF d.stream = "open" THEN "closed" ELSE d.stream]

\* DirectOutputTTS.dectalk_manager: None in __init__, assigned only by
\* set_dectalk_manager, which is never called.
AudioManagerHasDectalk == FALSE

\* DirectOutputTTS.stop (stop_all_speech is its alias)
audio_manager_stop(st) ==
    IF AudioManagerHasDectalk
    THEN [sapi_stop_speech(st) EXCEPT !.dectalk = dectalk_stop_speech(@)]
    ELSE sapi_stop_speech(st)

\* hasattr(self.sapi, 'voice'): SAPI5Direct names its voice sapi_voice.
SapiHasVoiceAttr == FALSE

\* DirectOutputTTS.is_speaking
is_speaking(st) ==
    IF SapiHasVoiceAttr THEN st.sapi_speaking # NoMsg
    ELSE FALSE

\* ------------------------------------------------------------------------
\* Queueing and purging
\* ------------------------------------------------------------------------

\* TTSReplicaWASAPI.speak: queue the text with its voice and user name.
speak(st, text, voice_name, username) ==
    [st EXCEPT !.queue = Append(@, Utterance(text, voice_name, username))]

\* TTSReplicaWASAPI.speak_with_voice
speak_with_voice(st, text, voice_name, username) ==
    speak(st, text, voice_name, username)

\* A purge that stops at the first utterance of the user.
PurgeFirstOfUser(q, username) ==
    IF \E i \in 1..Len(q) : q[i].username = username
    THEN LET i == CHOOSE j \in 1..Len(q) :
                      /\ q[j].username = username
                      /\ \A k \in 1..(j - 1) : q[k].username # username
         IN  SubSeq(q, 1, i - 1) \o SubSeq(q, i + 1, Len(q))
    ELSE q

\* The drain / filter / put-back pass of clear_user_from_queue.
PurgeUser(q, username) == SelectSeq(q, LAMBDA m : m.username # username)

\* "for _ in range(3)" of clear_user_from_queue
StopAttempts == 3

RECURSIVE StopRepeatedly(_, _)
StopRepeatedly(st, n) ==
    IF n = 0 THEN st ELSE StopRepeatedly(audio_manager_stop(st), n - 1)

\* The in-flight part of clear_user_from_queue.
StopIfSpeaking(st, username) ==
    IF st.cs = username
    THEN [StopRepeatedly(st, StopAttempts) EXCEPT !.cs = None]
    ELSE st

\* TTSReplicaWASAPI.clear_user_from_queue
clear_user_from_queue(st, username, add_to_blocked) ==
    IF username = None THEN st
    ELSE LET s1 == IF add_to_blocked /\ ~InList(username, st.blocked)
                   THEN [st EXCEPT !.blocked = Append(@, username)]
                   ELSE st
             s2 == StopIfSpeaking(s1, username)
         IN  [s2 EXCEPT !.queue = PurgeUser(@, username)]

\* TTSReplicaWASAPI.get_announcement_text; EmptyText stands for its None.
get_announcement_text(announcement_type, username) ==
    LET toggle_key == IF announcement_type = "AUTOBLOCK"
                      THEN "AUTOBLOCK TRIGGERED" ELSE announcement_type
        text == IF announcement_type \in DOMAIN cfg.announcements
                THEN cfg.announcements[announcement_type] ELSE EmptyText
    IN  IF toggle_key \in cfg.announcement_off THEN EmptyText
        ELSE IF text = EmptyText THEN EmptyText
        ELSE IF username # None THEN <<username, " ">> \o text
        ELSE text

\* An announcement that joins the queue at its end.
AppendAnnouncement(st, text) ==
    IF text # EmptyText
    THEN [st EXCEPT !.queue = Append(@, Utterance(text, cfg.announcement_voice, ANN))]
    ELSE st

\* The "insert announcement at front of queue" pass of on_chat_message:
\* drain the queue, put the announcement, put the drained utterances back.
InsertAnnouncement(st, text) ==
    IF text # EmptyText
    THEN [st EXCEPT !.queue = <<Utterance(text, cfg.announcement_voice, ANN)>> \o @]
    ELSE st

\* ------------------------------------------------------------------------
\* Voice selection
\* ------------------------------------------------------------------------

\* TTSReplicaWASAPI.apply_default_voice
apply_default_voice(st) ==
    IF cfg.default_voice # "" /\ cfg.default_voice \in NativeVoices
    THEN [st EXCEPT !.voice = cfg.default_voice]
    ELSE st

\* TTSReplicaWASAPI.apply_voice
apply_voice(st, voice_name) ==
    IF IsDECtalkVoice(voice_name) THEN st
    ELSE IF voice_name \in NativeVoices THEN [st EXCEPT !.voice = voice_name]
    ELSE st

\* available_voices of get_random_voice_for_user
RandomPool ==
    {voice_commands(k) : k \in {c \in VoiceCommandKeys : voice_commands(c) # ""}}
        \cup DECtalkVoices

\* What random.choice may return; {None} when the pool is empty.
RandomChoices ==
    IF RandomPool \ cfg.random_voice_exclusions = {} THEN {None}
    ELSE RandomPool \ cfg.random_voice_exclusions

\* TTSReplicaWASAPI.get_random_voice_for_user, chosen being the drawn voice
get_random_voice_for_user(st, username, chosen) ==
    IF chosen = None THEN st ELSE [st EXCEPT !.prefs[username] = chosen]

\* "if x" on a voice name
Truthy(v) == v # None /\ v # ""

HasPreference(st, username) == username # None /\ st.prefs[username] # None

\* TTSReplicaWASAPI.process_voice_command
process_voice_command(st, message, username) ==
    LET tg == MatchNumbered(message, ToggleHead)
        vn == MatchNumbered(message, <<"/", "v">>)
        tr == MatchTrigger(message)
        V(n) == <<"v", " ">> \o n
    IN
    IF StartsWith(message, <<"/">>) THEN
        IF tg.ok THEN
            IF username # None /\ V(tg.num) \in VoiceCommandKeys THEN
                IF voice_commands(V(tg.num)) = "" THEN
                    IF tg.text # EmptyText THEN speak(st, tg.text, None, username)
                    ELSE st
                ELSE
                    LET s1 == [st EXCEPT !.prefs[username] = voice_commands(V(tg.num))]
                    IN  IF tg.text # EmptyText
                        THEN speak_with_voice(s1, tg.text, voice_commands(V(tg.num)), username)
                        ELSE s1
            ELSE IF tg.text # EmptyText THEN speak(st, tg.text, None, username)
            ELSE st
        ELSE IF vn.ok THEN
            IF V(vn.num) \in VoiceCommandKeys THEN
                IF vn.text # EmptyText
                THEN speak_with_voice(st, vn.text, voice_commands(V(vn.num)), username)
                ELSE st
            ELSE IF vn.text # EmptyText THEN speak(st, vn.text, None, username)
            ELSE st
        ELSE IF tr.ok THEN
            IF tr.trigger \in VoiceCommandKeys THEN
                IF tr.text # EmptyText
                THEN speak_with_voice(st, tr.text, voice_commands(tr.trigger), username)
                ELSE st
            ELSE IF StartsWith(tr.trigger, <<"v">>) /\ Len(tr.trigger) > 1 THEN
                IF V(Drop(tr.trigger, 1)) \in VoiceCommandKeys THEN
                    IF tr.text # EmptyText
                    THEN speak_with_voice(st, tr.text,
                                          voice_commands(V(Drop(tr.trigger, 1))), username)
                    ELSE st
                ELSE IF tr.text # EmptyText THEN speak(st, tr.text, None, username)
                ELSE st
            ELSE speak(st, message, None, None)
        ELSE speak(st, message, None, None)
    ELSE IF StartsWith(message, <<"v", " ">>) THEN
        LET parts == Split2(message)
            text == IF Len(parts) > 2 THEN parts[3] ELSE EmptyText
        IN  IF V(parts[2]) \in VoiceCommandKeys THEN
                IF text # EmptyText
                THEN speak_with_voice(st, text, voice_commands(V(parts[2])), username)
                ELSE st
            ELSE IF text # EmptyText THEN speak(st, text, None, None)
            ELSE st
    ELSE
        LET parts == Split1(message)
            text == IF Len(parts) > 1 THEN parts[2] ELSE EmptyText
        IN  IF parts[1] \in VoiceCommandKeys THEN
                IF text # EmptyText
                THEN speak_with_voice(st, text, voice_commands(parts[1]), username)
                ELSE st
            ELSE speak(st, message, None, username)

\* ------------------------------------------------------------------------
\* on_chat_message
\* ------------------------------------------------------------------------

\* The auto-block scan: "keyword and keyword.lower() in message_lower".
AutoBlockHit(raw) ==
    \E i \in 1..Len(cfg.auto_block_keywords) :
        /\ cfg.auto_block_keywords[i] # EmptyText
        /\ Contains(Lower(raw), Lower(cfg.auto_block_keywords[i]))

\* Lines 1578-1604: block the sender, purge, announce.
handle_autoblock(st, username) ==
    Did(InsertAnnouncement(clear_user_from_queue(st, username, TRUE),
                           get_announcement_text("AUTOBLOCK", username)),
        "autoblock", username)

\* Line 1615: force_stop_tts, which is audio_manager.stop().
force_stop_tts(st) == audio_manager_stop(st)

\* TTSReplicaWASAPI.stop_all_speech: stop the OS backend, stop DECtalk,
\* empty the speech queue.
stop_all_speech(st) ==
    [audio_manager_stop(st) EXCEPT !.dectalk = dectalk_stop_speech(@),
                                   !.queue = << >>]

\* A target resolution that prefers the last speaker to the current one.
BlockTargetLastSpeaker(st) == IF st.last # None THEN st.last ELSE st.cs

\* Line 1643: whom "!block" blocks.
BlockTarget(st) == IF st.cs # None THEN st.cs ELSE st.last

\* A "!block" that does not ask whether the sender is an admin.
HandleBlockOfAnyone(st, username) ==
    IF st.last = Unset THEN Did(st, "error", None)
    ELSE IF BlockTarget(st) # None /\ BlockTarget(st) # username THEN
        Did(InsertAnnouncement(clear_user_from_queue(st, BlockTarget(st), TRUE),
                               get_announcement_text("BLOCK ADD", BlockTarget(st))),
            "block", BlockTarget(st))
    ELSE Did(st, "no_target", None)

\* Lines 1636-1674
handle_block(st, username) ==
    IF ~InList(username, st.admins) THEN Did(st, "denied", None)
    ELSE IF st.last = Unset THEN Did(st, "error", None)
    ELSE IF BlockTarget(st) # None /\ BlockTarget(st) # username THEN
        Did(InsertAnnouncement(clear_user_from_queue(st, BlockTarget(st), TRUE),
                               get_announcement_text("BLOCK ADD", BlockTarget(st))),
            "block", BlockTarget(st))
    ELSE Did(st, "no_target", None)

\* Lines 1677-1704, for a sender who is an admin.
handle_admin_add(st, username) ==
    IF st.last = Unset THEN Did(st, "error", None)
    ELSE IF st.last # None /\ st.last # username THEN
        Did(InsertAnnouncement([st EXCEPT !.admins = Append(@, st.last)],
                               get_announcement_text("ADMIN ADD", st.last)),
            "promote", st.last)
    ELSE Did(st, "no_target", None)

\* An unblock that deletes the first entry of the list.
UnblockFirst(blocked) == 1

\* Line 1713: the entry "!block clear" deletes.
UnblockIndex(blocked) == Len(blocked)

RemoveAt(lst, i) == SubSeq(lst, 1, i - 1) \o SubSeq(lst, i + 1, Len(lst))

\* Lines 1707-1736, for a sender who is an admin.
handle_block_clear(st) ==
    IF Len(st.blocked) > 0 THEN
        LET last_user == st.blocked[UnblockIndex(st.blocked)]
        IN  Did(InsertAnnouncement(
                    [st EXCEPT !.blocked = RemoveAt(@, UnblockIndex(st.blocked))],
                    get_announcement_text("BLOCK REMOVE", last_user)),
                "unblock", last_user)
    ELSE Did(st, "empty", None)

\* Lines 1743-1792: a message that starts with the TTS prefix and a blank.
handle_tts(st, username, message, chosen) ==
    LET text_to_speak == Strip(Drop(message, Len(TtsPrefix) + 1))
        spoken ==
            IF StartsWith(text_to_speak, <<"/">>) \/ StartsWith(text_to_speak, <<"v", " ">>)
            THEN process_voice_command(st, text_to_speak, username)
            ELSE IF HasPreference(st, username)
            THEN speak(st, text_to_speak, st.prefs[username], username)
            ELSE IF cfg.random_voice_enabled
            THEN IF chosen # None
                 THEN speak(get_random_voice_for_user(st, username, chosen),
                            text_to_speak, chosen, username)
                 ELSE speak(apply_default_voice(st), text_to_speak, None, username)
            ELSE speak(apply_default_voice(st), text_to_speak, None, username)
    IN  IF cfg.private_mode /\ ~InList(username, st.admins)
        THEN Did(st, "private", None)
        ELSE Did([spoken EXCEPT !.last = username], "tts", None)

\* Lines 1795-1835: a message that is no command and has no TTS prefix.
handle_unprefixed(st, username, message) ==
    IF cfg.private_mode /\ ~InList(username, st.admins) THEN Did(st, "private", None)
    ELSE IF \/ MatchSlashVNum(message)
            \/ /\ StartsWith(message, <<"/">>)
               /\ SlashWord(message) # << >>
               /\ \/ SlashWord(message) \in VoiceCommandKeys
                  \/ /\ StartsWith(SlashWord(message), <<"v">>)
                     /\ IsDigitStr(Drop(SlashWord(message), 1))
            \/ /\ StartsWith(message, <<"v", " ">>)
               /\ Len(message) > 2
               /\ message[3] \in Digits
            \/ Split1(message)[1] \in VoiceCommandKeys
    THEN Did(process_voice_command(st, message, username), "voice_command", None)
    ELSE Did(st, "ignore", None)


CmdTtsStop == Lower(TtsPrefix \o <<" ", "s", "t", "o", "p">>)
CmdStop == <<"!", "s", "t", "o", "p">>
CmdBlock == <<"!", "b", "l", "o", "c", "k">>
CmdBlockAdd == CmdBlock \o <<" ", "a", "d", "d">>
CmdAdminAdd == <<"!", "a", "d", "m", "i", "n", " ", "a", "d", "d">>
CmdBlockClear == CmdBlock \o <<" ", "c", "l", "e", "a", "r">>

\* Lines 1606-1835: what on_chat_message does with the message of a sender
\* who is not blocked and whom the auto-block scan let pass.
handle_commands(st, username, message, chosen) ==
    LET IsCommand(command) == Strip(Lower(message)) = command
    IN
    IF IsCommand(CmdTtsStop) THEN
        IF InList(username, st.admins) THEN Did(force_stop_tts(st), "force_stop", None)
        ELSE Did(st, "denied", None)
    ELSE IF IsCommand(CmdStop) THEN
        IF InList(username, st.admins) THEN Did(stop_all_speech(st), "stop_all", None)
        ELSE Did(st, "denied", None)
    ELSE IF IsCommand(CmdBlockAdd) \/ IsCommand(CmdBlock) THEN
        handle_block(st, username)
    ELSE IF IsCommand(CmdAdminAdd) /\ InList(username, st.admins) THEN
        handle_admin_add(st, username)
    ELSE IF IsCommand(CmdBlockClear) /\ InList(username, st.admins) THEN
        handle_block_clear(st)
    ELSE IF StartsWith(message, TtsPrefix \o <<" ">>) THEN
        handle_tts(st, username, message, chosen)
    ELSE handle_unprefixed(st, username, message)

\* An on_chat_message whose auto-block does not end the handling of the line.
OnChatMessageScanThenParse(st, username, raw, chosen) ==
    IF InList(username, st.blocked) THEN Did(st, "sender_blocked", None)
    ELSE IF cfg.auto_block /\ AutoBlockHit(raw)
    THEN handle_commands(handle_autoblock(st, username), username, Strip(raw), chosen)
    ELSE handle_commands(st, username, Strip(raw), chosen)

\* TTSReplicaWASAPI.on_chat_message, as a map from the state before to the
\* state after; raw is msg['message'], chosen what random.choice would draw.
OnChatMessage(st, username, raw, chosen) ==
    IF InList(username, st.blocked) THEN Did(st, "sender_blocked", None)
    ELSE IF cfg.auto_block /\ AutoBlockHit(raw) THEN handle_autoblock(st, username)
    ELSE handle_commands(st, username, Strip(raw), chosen)

\* ------------------------------------------------------------------------
\* Actions
\* ------------------------------------------------------------------------

\* The shared state after a handler left it as r.
Commit(r) ==
    /\ blocked_listbox' = r.blocked
    /\ admin_listbox' = r.admins
    /\ message_queue' = r.queue
    /\ currently_speaking_user' = r.cs
    /\ last_speaker' = r.last
    /\ user_voice_preferences' = r.prefs
    /\ current_voice' = r.voice
    /\ sapi_speech_queue' = r.sapi_queue
    /\ sapi_speaking' = r.sapi_speaking
    /\ dectalk' = r.dectalk
    /\ block_order' =
          SelectSeq(block_order, LAMBDA u : InList(u, r.blocked))
              \o SelectSeq(r.blocked, LAMBDA u : ~InList(u, blocked_listbox))

\* The step taken: the chat line handled, what the handler did with it (eff,
\* target), and, of the state before, the current speaker and the number of
\* queue entries of the target.
Op(op, user, msg, eff, target) ==
    [op |-> op, user |-> user, msg |-> msg, eff |-> eff, target |-> target,
     cs |-> currently_speaking_user,
     purged |-> Len(SelectSeq(message_queue, LAMBDA m : m.username = target))]

\* A step of the worker or of a backend, which handles no chat line.
StepOp(op) ==
    [op |-> op, user |-> None, msg |-> EmptyText, eff |-> "none", target |-> None,
     cs |-> None, purged |-> 0]

\* Where the worker holds a message it has not yet handed to playback.
WorkerHolds == {"check", "mark", "resolve", "draw", "dispatch", "dt_gen", "dt_gap"}

\* Where the worker is inside DECtalkNative.speak.
InDectalkSpeak == {"dt_gen", "dt_gap", "dt_play"}

\* What random.choice is asked to draw in this configuration.
Draws == IF cfg.random_voice_enabled THEN RandomChoices ELSE {None}

\* The event source delivers one chat line to on_chat_message.
on_chat_message(username, raw) ==
    \E chosen \in Draws :
        LET r == OnChatMessage(State, username, raw, chosen)
        IN  /\ n_chat < MaxChat
            /\ n_chat' = n_chat + 1
            /\ Len(r.queue) <= MaxQueue
            /\ Len(r.admins) <= MaxAdmins
            /\ Commit(r)
            /\ w_msg' = [w_msg EXCEPT
                            !.held_at_stop = @ \/ (r.eff = "stop_all" /\ w_pc \in WorkerHolds),
                            !.stopped_in_speak =
                                @ \/ (r.eff = "stop_all" /\ w_pc \in InDectalkSpeak)]
            /\ last_op' = Op("chat", username, raw, r.eff, r.target)
            /\ UNCHANGED <<lifecycle, handler, cfg, w_pc, w_polls>>

\* process_speech_queue, line 2164: msg = self.message_queue.get(...)
W_Get ==
    /\ w_pc = "idle"
    /\ message_queue # << >>
    /\ w_msg' = Head(message_queue)
    /\ w_pc' = "check"
    /\ Commit([State EXCEPT !.queue = Tail(@)])
    /\ handler' = IF handler.pc = "idle" THEN handler
                  ELSE [handler EXCEPT !.taken = Append(@, Head(message_queue))]
    /\ last_op' = StepOp("W_Get")
    /\ UNCHANGED <<lifecycle, cfg, w_polls, n_chat>>

\* Lines 2167-2170: skip the message of a blocked user.
W_CheckBlocked ==
    /\ w_pc = "check"
    /\ w_pc' = IF InList(w_msg.username, blocked_listbox) THEN "idle" ELSE "mark"
    /\ w_msg' = IF InList(w_msg.username, blocked_listbox) THEN NoMsg ELSE w_msg
    /\ Commit(State)
    /\ last_op' = StepOp("W_CheckBlocked")
    /\ UNCHANGED <<lifecycle, handler, cfg, w_polls, n_chat>>

\* Line 2173: self.currently_speaking_user = msg.get('username')
W_Mark ==
    /\ w_pc = "mark"
    /\ w_pc' = "resolve"
    /\ Commit([State EXCEPT !.cs = w_msg.username])
    /\ last_op' = StepOp("W_Mark")
    /\ UNCHANGED <<lifecycle, handler, cfg, w_msg, w_polls, n_chat>>

\* Lines 2189-2195: the branch that assigns a random voice, chosen being what
\* get_random_voice_for_user drew (None when nothing can be drawn).
AssignRandomVoice(st, msg, chosen) ==
    IF chosen # None
    THEN apply_voice(get_random_voice_for_user(st, msg.username, chosen), chosen)
    ELSE apply_default_voice(st)

\* Lines 2175-2198: the voice set on the OS backend for this message.
ResolveVoice(st, msg, chosen) ==
    IF Truthy(msg.voice) THEN apply_voice(st, msg.voice)
    ELSE IF HasPreference(st, msg.username) THEN apply_voice(st, st.prefs[msg.username])
    ELSE IF msg.username # None /\ cfg.random_voice_enabled
    THEN AssignRandomVoice(st, msg, chosen)
    ELSE apply_default_voice(st)

\* Lines 2175-2188: the tests that lead to get_random_voice_for_user.
NeedsDraw(st, msg) ==
    /\ ~Truthy(msg.voice)
    /\ ~HasPreference(st, msg.username)
    /\ msg.username # None
    /\ cfg.random_voice_enabled

\* Lines 2175-2198 up to the call of get_random_voice_for_user: the worker
\* has tested for a preference; the draw and its assignment to
\* user_voice_preferences are a later step of this thread.
W_Resolve ==
    /\ w_pc = "resolve"
    /\ IF NeedsDraw(State, w_msg)
       THEN /\ w_pc' = "draw"
            /\ Commit(State)
       ELSE /\ w_pc' = "dispatch"
            /\ Commit(ResolveVoice(State, w_msg, None))
    /\ last_op' = StepOp("W_Resolve")
    /\ UNCHANGED <<lifecycle, handler, cfg, w_msg, w_polls, n_chat>>

\* Lines 2189-2195: get_random_voice_for_user draws and stores the voice.
W_Draw ==
    /\ w_pc = "draw"
    /\ w_pc' = "dispatch"
    /\ \E chosen \in Draws : Commit(AssignRandomVoice(State, w_msg, chosen))
    /\ last_op' = [StepOp("W_Draw") EXCEPT !.user = w_msg.username]
    /\ UNCHANGED <<lifecycle, handler, cfg, w_msg, w_polls, n_chat>>

\* Lines 2203-2212: current_voice of the dispatch.
DispatchVoice(st, msg) ==
    IF ~Truthy(msg.voice) /\ HasPreference(st, msg.username)
       /\ IsDECtalkVoice(st.prefs[msg.username])
    THEN st.prefs[msg.username]
    ELSE msg.voice

\* Lines 2216-2228: the message goes to DECtalkNative.speak.
UsesDectalk(st, msg) ==
    /\ Truthy(DispatchVoice(st, msg))
    /\ IsDECtalkVoice(DispatchVoice(st, msg))
    /\ cfg.dectalk_available

\* DirectOutputTTS.speak -> SAPI5Direct.speak: "if not text: return", else
\* the text joins the backend's queue (with the user name and the voice the
\* message asked for, as history: the backend's queue holds the text only).
audio_manager_speak(st, msg) ==
    IF msg.text = EmptyText THEN st
    ELSE [st EXCEPT !.sapi_queue = Append(@, msg)]

\* DECtalkNative.speak up to the Popen of _speak_via_wav: stop_requested is
\* reset, _speak_via_wav calls stop_speech (which sets it), say.exe starts.
dectalk_speak_begin(d) ==
    [dectalk_stop_speech([d EXCEPT !.stop_requested = FALSE]) EXCEPT !.process = "running"]

\* Lines 2214-2270: hand the text to a backend.
W_Dispatch ==
    /\ w_pc = "dispatch"
    /\ IF UsesDectalk(State, w_msg)
       THEN /\ w_pc' = "dt_gen"
            /\ Commit([State EXCEPT !.dectalk = dectalk_speak_begin(@)])
       ELSE /\ w_pc' = "wait"
            /\ Len(audio_manager_speak(State, w_msg).sapi_queue) <= MaxSapiQueue
            /\ Commit(audio_manager_speak(State, w_msg))
    /\ last_op' = StepOp("W_Dispatch")
    /\ UNCHANGED <<lifecycle, handler, cfg, w_msg, w_polls, n_chat>>

\* A _speak_via_wav whose communicate() has no timeout while say.exe hangs:
\* it returns only when a stop has killed the process.
W_DectalkGeneratedNoTimeout ==
    /\ w_pc = "dt_gen"
    /\ dectalk.process = "killed"
    /\ w_pc' = "clear"
    /\ Commit([State EXCEPT !.dectalk.process = "none"])
    /\ last_op' = StepOp("W_DectalkGenerated")
    /\ UNCHANGED <<lifecycle, handler, cfg, w_msg, w_polls, n_chat>>

\* _speak_via_wav: communicate() returns.  say.exe was killed by a stop, or
\* failed, and speak returns False; or the WAV is there and _play_wav is next.
W_DectalkGenerated ==
    /\ w_pc = "dt_gen"
    /\ \E failed \in BOOLEAN :
          IF dectalk.process = "killed" \/ failed
          THEN /\ w_pc' = "clear"
               /\ Commit([State EXCEPT !.dectalk.process = "none"])
               /\ last_op' = StepOp("W_DectalkGenerated")
          ELSE /\ w_pc' = "dt_gap"
               /\ Commit([State EXCEPT !.dectalk.process = "none"])
               /\ last_op' = StepOp("W_DectalkGenerated")
    /\ UNCHANGED <<lifecycle, handler, cfg, w_msg, w_polls, n_chat>>

\* _play_wav up to its loop: the stream is opened and stop_requested reset.
W_DectalkPlay ==
    /\ w_pc = "dt_gap"
    /\ w_pc' = "dt_play"
    /\ Commit([State EXCEPT !.dectalk.stream = "open",
                            !.dectalk.stop_requested = FALSE])
    /\ last_op' = StepOp("W_DectalkPlay")
    /\ UNCHANGED <<lifecycle, handler, cfg, w_msg, w_polls, n_chat>>

\* _play_wav's loop ends: the data ran out (played in full), or a stop set
\* stop_requested and closed the stream.  Either way the worker skips its wait.
W_DectalkPlayed ==
    /\ w_pc = "dt_play"
    /\ w_pc' = "clear"
    /\ Commit([State EXCEPT !.dectalk.stream = "none"])
    /\ last_op' = StepOp("W_DectalkPlayed")
    /\ UNCHANGED <<lifecycle, handler, cfg, w_msg, w_polls, n_chat>>

\* Lines 2273-2300: one round of the completion wait.
WaitRound(st, msg, polls) ==
    IF ~is_speaking(st) THEN [st |-> st, done |-> TRUE]
    ELSE IF InList(msg.username, st.blocked)
    THEN [st |-> clear_user_from_queue(audio_manager_stop(st), msg.username, FALSE),
          done |-> TRUE]
    ELSE IF st.cs # msg.username
    THEN [st |-> audio_manager_stop(st), done |-> TRUE]
    ELSE [st |-> st, done |-> polls + 1 >= MaxPolls]

W_Wait ==
    /\ w_pc = "wait"
    /\ LET r == WaitRound(State, w_msg, w_polls)
       IN  /\ Commit(r.st)
           /\ w_pc' = IF r.done THEN "clear" ELSE "wait"
           /\ w_polls' = IF r.done \/ ~is_speaking(State) THEN w_polls ELSE w_polls + 1
    /\ last_op' = StepOp("W_Wait")
    /\ UNCHANGED <<lifecycle, handler, cfg, w_msg, n_chat>>

\* Lines 2303-2304: clear the current speaker if it is still this message's.
\* The iteration ends and msg is dead until the next get.
W_Clear ==
    /\ w_pc = "clear"
    /\ w_pc' = "idle"
    /\ w_polls' = 0
    /\ Commit(IF currently_speaking_user = w_msg.username
              THEN [State EXCEPT !.cs = None] ELSE State)
    /\ w_msg' = NoMsg
    /\ last_op' = StepOp("W_Clear")
    /\ UNCHANGED <<lifecycle, handler, cfg, n_chat>>

\* SAPI5Direct._speech_worker: take the next text, set the current voice on
\* worker_sapi and start Speak.
Sapi_Speak ==
    /\ sapi_speaking = NoMsg
    /\ sapi_speech_queue # << >>
    /\ Commit([State EXCEPT !.sapi_queue = Tail(@),
                            !.sapi_speaking =
                                [Head(sapi_speech_queue) EXCEPT !.voice = current_voice]])
    /\ last_op' = StepOp("Sapi_Speak")
    /\ UNCHANGED <<lifecycle, handler, cfg, w_pc, w_msg, w_polls, n_chat>>

\* worker_sapi.Speak returns: the text was spoken in full.
Sapi_Spoken ==
    /\ sapi_speaking # NoMsg
    /\ Commit([State EXCEPT !.sapi_speaking = NoMsg])
    /\ last_op' = StepOp("Sapi_Spoken")
    /\ UNCHANGED <<lifecycle, handler, cfg, w_pc, w_msg, w_polls, n_chat>>

\* ------------------------------------------------------------------------
\* Specification of the moderation commands
\* ------------------------------------------------------------------------

MsgHi == <<"h", "i">>
MsgTtsHi == <<"!", "t", "t", "s", " ", "h", "i">>
MsgTtsStop == <<"!", "t", "t", "s", " ", "S", "T", "O", "P">>
MsgStop == <<"!", "s", "t", "o", "p">>
MsgBlock == <<"!", "b", "l", "o", "c", "k">>
MsgBlockAdd == <<"!", "B", "l", "o", "c", "k", " ", "a", "d", "d">>
MsgBlockClear == <<"!", "b", "l", "o", "c", "k", " ", "c", "l", "e", "a", "r">>
MsgTtsBad == <<"!", "t", "t", "s", " ", "B", "a", "d">>
MsgSlashPaul == <<"/", "p", "a", "u", "l", " ", "h", "i">>

\* The chat lines the event source delivers.
ModerationMessages ==
    {MsgHi, MsgTtsHi, MsgTtsStop, MsgStop, MsgBlock, MsgBlockAdd, MsgBlockClear,
     MsgTtsBad, MsgSlashPaul}

AllNames == Users \cup {ANN}

\* The admin list of the configuration file (load_settings fills
\* admin_listbox from it): Alice and Bob are admins, Eve is not.
ConfiguredAdmins == <<"Alice", "Bob">>

\* config['user_voice_preferences'] as saved by an earlier run: Eve has
\* chosen the DECtalk profile, nobody else has a preference.
SavedPreferences ==
    [u \in AllNames |-> IF u = "Eve" THEN "[DECtalk] Perfect Paul" ELSE None]

\* The state __init__ leaves, under one of the configurations.
Init ==
    /\ cfg \in ModerationConfigs
    /\ blocked_listbox = << >>
    /\ admin_listbox = ConfiguredAdmins
    /\ message_queue = << >>
    /\ currently_speaking_user = None
    /\ last_speaker = Unset
    /\ user_voice_preferences = SavedPreferences
    /\ current_voice = cfg.default_voice
    /\ sapi_speech_queue = << >>
    /\ sapi_speaking = NoMsg
    /\ dectalk = [stop_requested |-> FALSE, process |-> "none", stream |-> "none"]
    /\ w_pc = "idle"
    /\ w_msg = NoMsg
    /\ w_polls = 0
    /\ n_chat = 0
    /\ handler = HandlerIdle
    /\ lifecycle = Started
    /\ block_order = << >>
    /\ last_op = StepOp("init")

Chat == \E username \in Users, raw \in ModerationMessages : on_chat_message(username, raw)

Next ==
    \/ Chat
    \/ W_Get
    \/ W_CheckBlocked
    \/ W_Mark
    \/ W_Resolve
    \/ W_Dispatch
    \/ W_DectalkGenerated
    \/ W_DectalkPlay
    \/ W_DectalkPlayed
    \/ W_Wait
    \/ W_Clear
    \/ Sapi_Speak
    \/ Sapi_Spoken

Spec == Init /\ [][Next]_vars

\* ------------------------------------------------------------------------
\* Specification of the voice commands
\* ------------------------------------------------------------------------

MsgTtsToggleHi == <<"!", "t", "t", "s", " ", "/", "v", "t", " ", "3", " ", "h", "i">>
MsgToggleHi == <<"/", "v", "t", " ", "3", " ", "h", "i">>
MsgTtsV3Hi == <<"!", "t", "t", "s", " ", "/", "v", " ", "3", " ", "h", "i">>
MsgTtsV5Hi == <<"!", "t", "t", "s", " ", "/", "v", " ", "5", " ", "h", "i">>

\* The chat lines of the voice commands: plain speech, the toggle with and
\* without the prefix, a one-shot voice, and a trigger whose voice is empty.
VoiceMessages ==
    {MsgTtsHi, MsgTtsToggleHi, MsgToggleHi, MsgTtsV3Hi, MsgTtsV5Hi}

VoiceSenders == {"Bob", "Eve"}

\* The configurations of the voice commands: the defaults, random voices
\* switched on, and an installation without the DECtalk executable.
VoiceConfigs ==
    {BaseConfig,
     [BaseConfig EXCEPT !.random_voice_enabled = TRUE],
     [BaseConfig EXCEPT !.dectalk_available = FALSE]}

InitVoice ==
    /\ cfg \in VoiceConfigs
    /\ blocked_listbox = << >>
    /\ admin_listbox = ConfiguredAdmins
    /\ message_queue = << >>
    /\ currently_speaking_user = None
    /\ last_speaker = Unset
    /\ user_voice_preferences = SavedPreferences
    /\ current_voice = cfg.default_voice
    /\ sapi_speech_queue = << >>
    /\ sapi_speaking = NoMsg
    /\ dectalk = [stop_requested |-> FALSE, process |-> "none", stream |-> "none"]
    /\ w_pc = "idle"
    /\ w_msg = NoMsg
    /\ w_polls = 0
    /\ n_chat = 0
    /\ handler = HandlerIdle
    /\ lifecycle = Started
    /\ block_order = << >>
    /\ last_op = StepOp("init")

ChatVoice == \E username \in VoiceSenders, raw \in VoiceMessages : on_chat_message(username, raw)

NextVoice ==
    \/ ChatVoice
    \/ W_Get
    \/ W_CheckBlocked
    \/ W_Mark
    \/ W_Resolve
    \/ W_Draw
    \/ W_Dispatch
    \/ W_DectalkGenerated
    \/ W_DectalkPlay
    \/ W_DectalkPlayed
    \/ W_Wait
    \/ W_Clear
    \/ Sapi_Speak
    \/ Sapi_Spoken

SpecVoice == InitVoice /\ [][NextVoice]_vars

\* ------------------------------------------------------------------------
\* Specification of the admin gate and of the auto-block scan
\* ------------------------------------------------------------------------

MsgAdminAdd == <<"!", "a", "d", "m", "i", "n", " ", "a", "d", "d">>

\* The chat lines of the commands: speech, speech with a keyword, and the
\* six moderation commands.
CommandMessages ==
    {MsgTtsHi, MsgTtsBad, MsgTtsStop, MsgStop, MsgBlock, MsgBlockAdd, MsgAdminAdd,
     MsgBlockClear}

\* Alice is an admin, Eve is not.
CommandSenders == {"Alice", "Eve"}

\* The configurations of the commands: no auto-block, and an auto-block
\* whose keyword list holds a word of the stop commands.
CommandConfigs ==
    {BaseConfig,
     [BaseConfig EXCEPT !.auto_block = TRUE, !.auto_block_keywords = CommandKeywords]}

InitCommands ==
    /\ cfg \in CommandConfigs
    /\ blocked_listbox = << >>
    /\ admin_listbox = ConfiguredAdmins
    /\ message_queue = << >>
    /\ currently_speaking_user = None
    /\ last_speaker = Unset
    /\ user_voice_preferences = SavedPreferences
    /\ current_voice = cfg.default_voice
    /\ sapi_speech_queue = << >>
    /\ sapi_speaking = NoMsg
    /\ dectalk = [stop_requested |-> FALSE, process |-> "none", stream |-> "none"]
    /\ w_pc = "idle"
    /\ w_msg = NoMsg
    /\ w_polls = 0
    /\ n_chat = 0
    /\ handler = HandlerIdle
    /\ lifecycle = Started
    /\ block_order = << >>
    /\ last_op = StepOp("init")

ChatCommands ==
    \E username \in CommandSenders, raw \in CommandMessages : on_chat_message(username, raw)

NextCommands ==
    \/ ChatCommands
    \/ W_Get
    \/ W_CheckBlocked
    \/ W_Mark
    \/ W_Resolve
    \/ W_Dispatch
    \/ W_DectalkGenerated
    \/ W_DectalkPlay
    \/ W_DectalkPlayed
    \/ W_Wait
    \/ W_Clear
    \/ Sapi_Speak
    \/ Sapi_Spoken

SpecCommands == InitCommands /\ [][NextCommands]_vars

\* ------------------------------------------------------------------------
\* Specification of the running worker
\* ------------------------------------------------------------------------

\* The chat lines of the worker's progress: speech, the stop and the block.
LiveMessages == {MsgTtsHi, MsgStop, MsgBlock}

\* Alice is an admin without a stored voice (OS backend); Eve's stored voice
\* is a DECtalk profile.
LiveSenders == {"Alice", "Eve"}

InitLive ==
    /\ cfg = BaseConfig
    /\ blocked_listbox = << >>
    /\ admin_listbox = ConfiguredAdmins
    /\ message_queue = << >>
    /\ currently_speaking_user = None
    /\ last_speaker = Unset
    /\ user_voice_preferences = SavedPreferences
    /\ current_voice = cfg.default_voice
    /\ sapi_speech_queue = << >>
    /\ sapi_speaking = NoMsg
    /\ dectalk = [stop_requested |-> FALSE, process |-> "none", stream |-> "none"]
    /\ w_pc = "idle"
    /\ w_msg = NoMsg
    /\ w_polls = 0
    /\ n_chat = 0
    /\ handler = HandlerIdle
    /\ lifecycle = Started
    /\ block_order = << >>
    /\ last_op = StepOp("init")

ChatLive == \E username \in LiveSenders, raw \in LiveMessages : on_chat_message(username, raw)

NextLive ==
    \/ ChatLive
    \/ W_Get
    \/ W_CheckBlocked
    \/ W_Mark
    \/ W_Resolve
    \/ W_Dispatch
    \/ W_DectalkGenerated
    \/ W_DectalkPlay
    \/ W_DectalkPlayed
    \/ W_Wait
    \/ W_Clear
    \/ Sapi_Speak
    \/ Sapi_Spoken

\* The worker thread and the backend's thread are running threads: each of
\* their steps, once it can be taken, is taken.  The queue get has a timeout
\* and is retried (2164), communicate() has a timeout (dectalk_native.py:389),
\* the playback loop ends with the WAV data, the wait loop with its ceiling.
WorkerFairness ==
    /\ WF_vars(W_Get)
    /\ WF_vars(W_CheckBlocked)
    /\ WF_vars(W_Mark)
    /\ WF_vars(W_Resolve)
    /\ WF_vars(W_Dispatch)
    /\ WF_vars(W_DectalkGenerated)
    /\ WF_vars(W_DectalkPlay)
    /\ WF_vars(W_DectalkPlayed)
    /\ WF_vars(W_Wait)
    /\ WF_vars(W_Clear)
    /\ WF_vars(Sapi_Speak)
    /\ WF_vars(Sapi_Spoken)

SpecLive == InitLive /\ [][NextLive]_vars /\ WorkerFairness

\* ------------------------------------------------------------------------
\* Specification of the queue passes of "!block"
\* ------------------------------------------------------------------------

\* The "!block" branch of on_chat_message step by step, one queue operation
\* at a time, beside the worker thread.  The queue is a queue.Queue: each
\* get and each put is atomic, a pass of gets and puts is not.

\* clear_user_from_queue before its pass over the queue: the blocked list
\* and the in-flight stop.
BlockAndStop(st, username) ==
    StopIfSpeaking(IF ~InList(username, st.blocked)
                   THEN [st EXCEPT !.blocked = Append(@, username)]
                   ELSE st,
                   username)

\* How many users are blocked step by step.
MaxBlocks == 1

\* An admin's "!block" with a target, up to the first pass over the queue.
Block_Begin(username) ==
    /\ handler.pc = "idle"
    /\ Len(blocked_listbox) < MaxBlocks
    /\ InList(username, admin_listbox)
    /\ ~InList(username, blocked_listbox)
    /\ last_speaker # Unset
    /\ BlockTarget(State) # None
    /\ BlockTarget(State) # username
    /\ handler' = [pc |-> "drain", target |-> BlockTarget(State), temp |-> << >>,
                   orig |-> message_queue, taken |-> << >>]
    /\ Commit(BlockAndStop(State, BlockTarget(State)))
    /\ last_op' = [StepOp("Block_Begin") EXCEPT !.user = username,
                                                !.target = BlockTarget(State)]
    /\ UNCHANGED <<lifecycle, cfg, w_pc, w_msg, w_polls, n_chat>>

\* One turn of a "while not empty(): get_nowait()" loop: of
\* clear_user_from_queue, which keeps what is not the target's, or of the
\* announcement insertion, which keeps everything.
Block_Drain ==
    /\ handler.pc \in {"drain", "ann_drain"}
    /\ IF message_queue = << >>
       THEN /\ handler' = [handler EXCEPT
                              !.pc = IF @ = "drain" THEN "putback" ELSE "ann_put"]
            /\ Commit(State)
       ELSE /\ handler' = [handler EXCEPT
                              !.temp = IF /\ handler.pc = "drain"
                                          /\ Head(message_queue).username = handler.target
                                       THEN @
                                       ELSE Append(@, Head(message_queue))]
            /\ Commit([State EXCEPT !.queue = Tail(@)])
    /\ last_op' = StepOp("Block_Drain")
    /\ UNCHANGED <<lifecycle, cfg, w_pc, w_msg, w_polls, n_chat>>

\* The announcement is put on the queue the second pass has emptied.
Block_Announce ==
    /\ handler.pc = "ann_put"
    /\ handler' = [handler EXCEPT !.pc = "ann_putback"]
    /\ Commit(IF get_announcement_text("BLOCK ADD", handler.target) # EmptyText
              THEN speak(State, get_announcement_text("BLOCK ADD", handler.target),
                         cfg.announcement_voice, ANN)
              ELSE State)
    /\ last_op' = StepOp("Block_Announce")
    /\ UNCHANGED <<lifecycle, cfg, w_pc, w_msg, w_polls, n_chat>>

\* One turn of a loop that puts the kept utterances back; after the last
\* turn of the second loop the handler returns.
Block_PutBack ==
    /\ handler.pc \in {"putback", "ann_putback"}
    /\ IF handler.temp = << >>
       THEN /\ handler' = IF handler.pc = "putback"
                          THEN [handler EXCEPT !.pc = "ann_drain"]
                          ELSE HandlerIdle
            /\ Commit(State)
       ELSE /\ handler' = [handler EXCEPT !.temp = Tail(@)]
            /\ Commit([State EXCEPT !.queue = Append(@, Head(handler.temp))])
    /\ last_op' = StepOp("Block_PutBack")
    /\ UNCHANGED <<lifecycle, cfg, w_pc, w_msg, w_polls, n_chat>>

\* Three users queue speech; Bob, an admin, blocks.
DrainMessages == {MsgTtsHi}
DrainAdmins == {"Bob"}

InitDrain ==
    /\ cfg = BaseConfig
    /\ blocked_listbox = << >>
    /\ admin_listbox = ConfiguredAdmins
    /\ message_queue = << >>
    /\ currently_speaking_user = None
    /\ last_speaker = Unset
    /\ user_voice_preferences = SavedPreferences
    /\ current_voice = cfg.default_voice
    /\ sapi_speech_queue = << >>
    /\ sapi_speaking = NoMsg
    /\ dectalk = [stop_requested |-> FALSE, process |-> "none", stream |-> "none"]
    /\ w_pc = "idle"
    /\ w_msg = NoMsg
    /\ w_polls = 0
    /\ n_chat = 0
    /\ handler = HandlerIdle
    /\ lifecycle = Started
    /\ block_order = << >>
    /\ last_op = StepOp("init")

\* The event source calls on_chat_message for one line at a time.
ChatDrain ==
    /\ handler.pc = "idle"
    /\ \E username \in Users, raw \in DrainMessages : on_chat_message(username, raw)

NextDrain ==
    \/ ChatDrain
    \/ \E username \in DrainAdmins : Block_Begin(username)
    \/ Block_Drain
    \/ Block_Announce
    \/ Block_PutBack
    \/ W_Get
    \/ W_CheckBlocked
    \/ W_Mark
    \/ W_Resolve
    \/ W_Dispatch
    \/ W_DectalkGenerated
    \/ W_DectalkPlay
    \/ W_DectalkPlayed
    \/ W_Wait
    \/ W_Clear
    \/ Sapi_Speak
    \/ Sapi_Spoken

SpecDrain == InitDrain /\ [][NextDrain]_vars

\* ------------------------------------------------------------------------
\* Specification of start, stop and reload
\* ------------------------------------------------------------------------

\* The threads start_tts creates, each running process_speech_queue; here an
\* iteration of its loop is two steps, the get and the rest.

\* How many times start_tts is called.
MaxThreads == 2

\* self.queue_thread: the thread the last start_tts created.
queue_thread == lifecycle.threads[Len(lifecycle.threads)]

\* start_tts, with the Start button enabled: set queue_running, create the
\* thread and start it.
start_tts ==
    /\ ~lifecycle.is_running
    /\ Len(lifecycle.threads) < MaxThreads
    /\ lifecycle' = [lifecycle EXCEPT
                        !.queue_running = TRUE,
                        !.is_running = TRUE,
                        !.threads = Append(@, [pc |-> "test", msg |-> NoMsg])]
    /\ Commit(State)
    /\ last_op' = StepOp("start_tts")
    /\ UNCHANGED <<handler, cfg, w_pc, w_msg, w_polls, n_chat>>

\* stop_tts up to its join: the monitors are stopped and queue_running is
\* cleared.
stop_tts_begin ==
    /\ lifecycle.is_running
    /\ ~lifecycle.joining
    /\ lifecycle' = [lifecycle EXCEPT !.queue_running = FALSE, !.joining = TRUE]
    /\ Commit(State)
    /\ last_op' = StepOp("stop_tts_begin")
    /\ UNCHANGED <<handler, cfg, w_pc, w_msg, w_polls, n_chat>>

\* A call of the thread that can last longer than the join waits: the
\* synchronous DECtalkNative.speak (say.exe, then the playback of the WAV).
InLongCall(t) == t.pc = "body" /\ UsesDectalk(State, t.msg)

\* join(timeout=1.0) returns, because the thread has ended or because the
\* second has passed with the thread inside a backend call; stop_tts empties
\* the queue and returns.
stop_tts_end ==
    /\ lifecycle.joining
    /\ queue_thread.pc = "done" \/ InLongCall(queue_thread)
    /\ lifecycle' = [lifecycle EXCEPT !.joining = FALSE, !.is_running = FALSE]
    /\ Commit([State EXCEPT !.queue = << >>])
    /\ last_op' = StepOp("stop_tts_end")
    /\ UNCHANGED <<handler, cfg, w_pc, w_msg, w_polls, n_chat>>

\* Line 2161: while self.queue_running
T_Test(i) ==
    /\ lifecycle.threads[i].pc = "test"
    /\ lifecycle' = [lifecycle EXCEPT
                        !.threads[i].pc = IF lifecycle.queue_running THEN "get" ELSE "done"]
    /\ Commit(State)
    /\ last_op' = StepOp("T_Test")
    /\ UNCHANGED <<handler, cfg, w_pc, w_msg, w_polls, n_chat>>

\* Lines 2164-2173: the get, which times out on an empty queue; the message
\* of a blocked user is skipped, any other makes its user the current speaker.
T_Get(i) ==
    /\ lifecycle.threads[i].pc = "get"
    /\ IF message_queue = << >>
       THEN /\ lifecycle' = [lifecycle EXCEPT !.threads[i].pc = "test"]
            /\ Commit(State)
       ELSE IF InList(Head(message_queue).username, blocked_listbox)
       THEN /\ lifecycle' = [lifecycle EXCEPT !.threads[i].pc = "test"]
            /\ Commit([State EXCEPT !.queue = Tail(@)])
       ELSE /\ lifecycle' = [lifecycle EXCEPT
                                !.threads[i] = [pc |-> "body", msg |-> Head(message_queue)]]
            /\ Commit([State EXCEPT !.queue = Tail(@),
                                    !.cs = Head(message_queue).username])
    /\ last_op' = StepOp("T_Get")
    /\ UNCHANGED <<handler, cfg, w_pc, w_msg, w_polls, n_chat>>

\* Lines 2175-2304 as one step: the voice is resolved, the text goes to
\* DECtalkNative.speak (which returns when it has been played) or to the OS
\* backend's queue, and the current speaker is cleared if still this user.
ProcessMessage(st, msg) ==
    LET s1 == ResolveVoice(st, msg, None)
        s2 == IF UsesDectalk(s1, msg)
              THEN [s1 EXCEPT !.dectalk = [stop_requested |-> FALSE,
                                           process |-> "none", stream |-> "none"]]
              ELSE audio_manager_speak(s1, msg)
    IN  IF s2.cs = msg.username THEN [s2 EXCEPT !.cs = None] ELSE s2

T_Body(i) ==
    /\ lifecycle.threads[i].pc = "body"
    /\ Len(ProcessMessage(State, lifecycle.threads[i].msg).sapi_queue) <= MaxSapiQueue
    /\ lifecycle' = [lifecycle EXCEPT !.threads[i] = [pc |-> "test", msg |-> NoMsg]]
    /\ Commit(ProcessMessage(State, lifecycle.threads[i].msg))
    /\ last_op' = StepOp("T_Body")
    /\ UNCHANGED <<handler, cfg, w_pc, w_msg, w_polls, n_chat>>

\* The application as constructed: nothing started.  Alice's utterances go
\* to the OS backend, Eve's to DECtalk.
LifecycleSenders == {"Alice", "Eve"}

InitLifecycle ==
    /\ cfg = BaseConfig
    /\ blocked_listbox = << >>
    /\ admin_listbox = ConfiguredAdmins
    /\ message_queue = << >>
    /\ currently_speaking_user = None
    /\ last_speaker = Unset
    /\ user_voice_preferences = SavedPreferences
    /\ current_voice = cfg.default_voice
    /\ sapi_speech_queue = << >>
    /\ sapi_speaking = NoMsg
    /\ dectalk = [stop_requested |-> FALSE, process |-> "none", stream |-> "none"]
    /\ w_pc = "idle"
    /\ w_msg = NoMsg
    /\ w_polls = 0
    /\ n_chat = 0
    /\ handler = HandlerIdle
    /\ lifecycle = NotStarted
    /\ block_order = << >>
    /\ last_op = StepOp("init")

\* A monitor started by start_tts and not yet stopped delivers a chat line.
ChatLifecycle ==
    /\ lifecycle.is_running
    /\ ~lifecycle.joining
    /\ \E username \in LifecycleSenders : on_chat_message(username, MsgTtsHi)

\* The threads created so far.
ThreadIds == 1..Len(lifecycle.threads)

\* reload_tts is stop_tts followed by start_tts.
NextLifecycle ==
    \/ start_tts
    \/ stop_tts_begin
    \/ stop_tts_end
    \/ ChatLifecycle
    \/ \E i \in ThreadIds : T_Test(i)
    \/ \E i \in ThreadIds : T_Get(i)
    \/ \E i \in ThreadIds : T_Body(i)
    \/ Sapi_Speak
    \/ Sapi_Spoken

SpecLifecycle == InitLifecycle /\ [][NextLifecycle]_vars

\* ------------------------------------------------------------------------
\* Specification of who spoke
\* ------------------------------------------------------------------------

\* Prefixed lines whose text is a voice command without text, an unknown
\* trigger, or a legacy command with an unmapped number.
MsgTtsToggle == <<"!", "t", "t", "s", " ", "/", "v", "t", " ", "3">>
MsgTtsXyzHi == <<"!", "t", "t", "s", " ", "/", "x", "y", "z", " ", "h", "i">>
MsgTtsV9Hi == <<"!", "t", "t", "s", " ", "v", " ", "9", " ", "h", "i">>

SpeakerMessages ==
    {MsgTtsHi, MsgTtsToggle, MsgTtsXyzHi, MsgTtsV9Hi, MsgSlashPaul, MsgBlock}

\* Alice is an admin; Eve is not.
SpeakerSenders == {"Alice", "Eve"}

InitSpeakers ==
    /\ cfg = BaseConfig
    /\ blocked_listbox = << >>
    /\ admin_listbox = ConfiguredAdmins
    /\ message_queue = << >>
    /\ currently_speaking_user = None
    /\ last_speaker = Unset
    /\ user_voice_preferences = SavedPreferences
    /\ current_voice = cfg.default_voice
    /\ sapi_speech_queue = << >>
    /\ sapi_speaking = NoMsg
    /\ dectalk = [stop_requested |-> FALSE, process |-> "none", stream |-> "none"]
    /\ w_pc = "idle"
    /\ w_msg = NoMsg
    /\ w_polls = 0
    /\ n_chat = 0
    /\ handler = HandlerIdle
    /\ lifecycle = Started
    /\ block_order = << >>
    /\ last_op = StepOp("init")

ChatSpeakers ==
    \E username \in SpeakerSenders, raw \in SpeakerMessages : on_chat_message(username, raw)

NextSpeakers ==
    \/ ChatSpeakers
    \/ W_Get
    \/ W_CheckBlocked
    \/ W_Mark
    \/ W_Resolve
    \/ W_Dispatch
    \/ W_DectalkGenerated
    \/ W_DectalkPlay
    \/ W_DectalkPlayed
    \/ W_Wait
    \/ W_Clear
    \/ Sapi_Speak
    \/ Sapi_Spoken

SpecSpeakers == InitSpeakers /\ [][NextSpeakers]_vars

\* ------------------------------------------------------------------------
\* Properties
\* ------------------------------------------------------------------------

\* The step taken is the handling of a chat line.
ChatStep == last_op'.op = "chat"

\* The entries of user u in the queue q, in queue order.
Entries(q, u) == SelectSeq(q, LAMBDA m : m.username = u)

\* Names an utterance may carry.
EntryNames == AllNames \cup {None}

\* No utterance other than an announcement is in the queue after the step
\* that was not in it before.
NothingNewToSpeak ==
    \A i \in 1..Len(message_queue') :
        message_queue'[i].username = ANN \/ InList(message_queue'[i], message_queue)

\* The state the handlers work on is as it was.
ProgramStateUnchanged ==
    UNCHANGED <<blocked_listbox, admin_listbox, message_queue, currently_speaking_user,
                last_speaker, user_voice_preferences, current_voice, sapi_speech_queue,
                sapi_speaking, dectalk>>

\* The OS backend is rendering an utterance of user u.
SapiRenders(u) == sapi_speaking # NoMsg /\ sapi_speaking.username = u

\* DECtalk is playing an utterance of user u and nothing has stopped it.
DectalkRenders(u) ==
    w_pc = "dt_play" /\ dectalk.stream = "open" /\ w_msg.username = u

\* The legacy forms of a voice command without the TTS prefix: "v N ..." and
\* a known trigger as the first word.
LegacyBareTrigger(m) ==
    \/ StartsWith(m, <<"v", " ">>) /\ Len(m) > 2 /\ m[3] \in Digits
    \/ Split1(m)[1] \in VoiceCommandKeys

\* C1 (as claimed): a chat line that does not start with the TTS prefix and
\* is no legacy bare-trigger voice command is ignored: its handling adds no
\* utterance with its text to the speech queue, whoever sent it.
C1_PlainChatIgnored ==
    [][(/\ ChatStep
        /\ ~StartsWith(Strip(last_op'.msg), TtsPrefix)
        /\ ~LegacyBareTrigger(Strip(last_op'.msg)))
       => NothingNewToSpeak]_vars

\* The step blocked a user: clear_user_from_queue(u, add_to_blocked=True)
\* ran, from "!block" or from the auto-block scan.
BlockStep == ChatStep /\ last_op'.eff \in {"block", "autoblock"}

\* C2: when block(u) has run, u is in the blocked list, the queue holds no
\* entry of u, and the entries of every other user are all still there, in
\* their order (the announcement of the block, if one is made, is then put
\* in front of them).
C2_BlockPurgesQueue ==
    [][BlockStep =>
        LET u == last_op'.target
        IN  /\ InList(u, blocked_listbox')
            /\ \E k \in 0..1 :
                  /\ k <= Len(message_queue')
                  /\ k = 1 => message_queue'[1].username = ANN
                  /\ Entries(Drop(message_queue', k), u) = << >>
                  /\ \A v \in EntryNames \ {u} :
                        Entries(Drop(message_queue', k), v) = Entries(message_queue, v)
      ]_vars

\* C2, the case: a block has just purged entries of its target from a queue
\* that also holds an utterance of another player.
C2_Witness ==
    /\ last_op.op = "chat"
    /\ last_op.eff \in {"block", "autoblock"}
    /\ last_op.purged >= 1
    /\ InList(last_op.target, blocked_listbox)
    /\ \E i \in 1..Len(message_queue) : message_queue[i].username \in Users

\* C3 (as claimed): in no state is an utterance of a blocked user being
\* rendered, by the OS backend or by DECtalk.
C3_NoBlockedSpeech ==
    \A u \in AllNames :
        InList(u, blocked_listbox) => ~SapiRenders(u) /\ ~DectalkRenders(u)

\* C4 (as claimed): when a user is blocked while being the current speaker,
\* the current speaker is cleared and the backend rendering the utterance
\* has been stopped: the OS backend renders nothing, say.exe of DECtalk is
\* killed if it was generating, the DECtalk stream closed if it was playing.
C4_BlockStopsInFlight ==
    (/\ last_op.op = "chat"
     /\ last_op.eff \in {"block", "autoblock"}
     /\ last_op.cs = last_op.target)
    => /\ currently_speaking_user = None
       /\ sapi_speaking = NoMsg
       /\ w_pc = "dt_gen" => dectalk.process = "killed"
       /\ w_pc = "dt_play" => dectalk.stream # "open"

\* The sender of the chat line handled is an admin whose messages are not
\* dropped: not in the blocked list when the line arrives.
ByActiveAdmin ==
    /\ InList(last_op'.user, admin_listbox)
    /\ ~InList(last_op'.user, blocked_listbox)

\* C5 (as claimed): "{ttsPrefix} stop" is never spoken; from a non-admin it
\* changes nothing; from an admin it leaves the speech queue empty and stops
\* what is being rendered.
C5_PrefixStop ==
    [][(ChatStep /\ Strip(Lower(last_op'.msg)) = CmdTtsStop) =>
        /\ NothingNewToSpeak
        /\ ~InList(last_op'.user, admin_listbox) => ProgramStateUnchanged
        /\ ByActiveAdmin =>
              /\ message_queue' = << >>
              /\ sapi_speaking' = NoMsg
              /\ w_pc = "dt_gen" => dectalk'.process = "killed"
              /\ w_pc = "dt_play" => dectalk'.stream # "open"
      ]_vars

\* An utterance the worker held when an admin's "!stop" was handled is being
\* rendered.
RendersHeldAtStop ==
    \/ sapi_speaking.held_at_stop
    \/ w_pc = "dt_play" /\ dectalk.stream = "open" /\ w_msg.held_at_stop

\* C6 (as claimed): an admin's "!stop" empties the speech queue and stops
\* both backends, and nothing that was queued before it is rendered after
\* it; from a non-admin "!stop" changes nothing.
C6_StopAll ==
    /\ [][(ChatStep /\ Strip(Lower(last_op'.msg)) = CmdStop) =>
            /\ ~InList(last_op'.user, admin_listbox) => ProgramStateUnchanged
            /\ ByActiveAdmin =>
                  /\ message_queue' = << >>
                  /\ sapi_speech_queue' = << >>
                  /\ sapi_speaking' = NoMsg
                  /\ dectalk'.stop_requested
          ]_vars
    /\ [](~RendersHeldAtStop)

\* The chat line handled is "!block" or "!block add".
IsBlockCommand(m) == Strip(Lower(m)) \in {CmdBlock, CmdBlockAdd}

C8_AnnouncementsExempt ==
    /\ [](~InList(ANN, blocked_listbox))
    /\ [][~(w_pc = "check" /\ w_msg.username = ANN /\ w_pc' = "idle")]_vars

\* The chat line handled comes from a sender who is not blocked and holds an
\* auto-block keyword, with auto-block enabled.
AutoBlockStep ==
    /\ ChatStep
    /\ cfg.auto_block
    /\ ~InList(last_op'.user, blocked_listbox)
    /\ AutoBlockHit(last_op'.msg)

\* The queue after the auto-block of u announced by the utterances anns.
AfterAutoBlock(u, anns) ==
    /\ InList(u, blocked_listbox')
    /\ message_queue' = anns \o SelectSeq(message_queue, LAMBDA m : m.username # u)

\* C9 (as claimed): an auto-block puts the sender in the blocked list,
\* removes the sender's queued utterances and puts exactly one announcement
\* in front of everything left in the queue.
C9_AutoBlockAnnounces ==
    [][AutoBlockStep =>
        \E a \in {message_queue'[i] : i \in 1..Len(message_queue')} :
            a.username = ANN /\ AfterAutoBlock(last_op'.user, <<a>>)
      ]_vars

\* The AUTOBLOCK announcement is switched on and its template is not empty.
AutoBlockAnnounced ==
    /\ "AUTOBLOCK TRIGGERED" \notin cfg.announcement_off
    /\ cfg.announcements["AUTOBLOCK"] # EmptyText

\* C9 (amended): as claimed when the AUTOBLOCK announcement is switched on
\* and has a text; otherwise the auto-block adds no announcement.
C9_AutoBlockAnnouncesIfEnabled ==
    [][AutoBlockStep =>
        IF AutoBlockAnnounced
        THEN AfterAutoBlock(last_op'.user,
                 <<Utterance(<<last_op'.user, " ">> \o cfg.announcements["AUTOBLOCK"],
                             cfg.announcement_voice, ANN)>>)
        ELSE AfterAutoBlock(last_op'.user, << >>)
      ]_vars

\* C9, the case: an auto-block has put its announcement in front of another
\* player's utterance that was waiting in the queue.
C9_Witness ==
    /\ last_op.op = "chat"
    /\ last_op.eff = "autoblock"
    /\ Len(message_queue) >= 2
    /\ message_queue[1].username = ANN
    /\ message_queue[2].username \in Users \ {last_op.user}

\* The users in the list lst.
Members(lst) == {lst[i] : i \in 1..Len(lst)}

\* What "!block clear" is to leave of the blocked list: all but the user
\* blocked last.
AfterUnblock ==
    IF block_order = << >> THEN {}
    ELSE Members(blocked_listbox) \ {block_order[Len(block_order)]}

ResolvesVoiceOf(u) ==
    /\ last_op'.user = u
    /\ \/ last_op'.op = "W_Draw"
       \/ ChatStep /\ last_op'.eff = "tts" /\ last_op'.msg = MsgTtsHi

\* C11: voice resolution is idempotent.  A resolution for a user who already
\* has a stored voice (stored by an earlier resolution, no other change in
\* between) returns that voice and does not draw again, so it leaves the
\* stored voice as it is.
C11_ResolutionIdempotent ==
    [][\A u \in Users :
          (ResolvesVoiceOf(u) /\ user_voice_preferences[u] # None)
              => user_voice_preferences'[u] = user_voice_preferences[u]]_vars

\* C12: the chat line "/vt 3 hi" of a sender, "/vt" being the toggle command
\* and "v 3" being mapped to a voice V that is not empty, stores V as the
\* sender's voice and puts exactly one utterance into the queue: the text
\* "hi" with the voice V and the sender's name.
C12_ToggleStoresAndSpeaks ==
    [][\A u \in Users :
          (ChatStep /\ last_op'.user = u /\ last_op'.msg = MsgToggleHi)
              => /\ user_voice_preferences'[u] = voice_commands(TrigV3)
                 /\ message_queue' =
                        Append(message_queue,
                               Utterance(<<"h", "i">>, voice_commands(TrigV3), u))]_vars

\* C13: when an admin sends "!block" while another player is the current
\* speaker, that player is in the blocked list afterwards, the utterance in
\* flight has been stopped (the OS backend does not render it, say.exe is
\* killed if DECtalk was generating it, the DECtalk stream is closed if it
\* was playing), and the announcement of the block is at the head of the
\* queue, ahead of every utterance that survived.
C13_BlockWhileSpeaking ==
    [][(/\ ChatStep
        /\ IsBlockCommand(last_op'.msg)
        /\ ByActiveAdmin
        /\ currently_speaking_user \in Users \ {last_op'.user})
       => LET b == currently_speaking_user
          IN  /\ InList(b, blocked_listbox')
              /\ ~(sapi_speaking' # NoMsg /\ sapi_speaking'.username = b)
              /\ (w_pc = "dt_gen" /\ w_msg.username = b) => dectalk'.process = "killed"
              /\ (w_pc = "dt_play" /\ w_msg.username = b) => dectalk'.stream # "open"
              /\ message_queue' # << >>
              /\ message_queue'[1].username = ANN
              /\ message_queue'[1].text = get_announcement_text("BLOCK ADD", b)
      ]_vars

\* The six moderation commands, as on_chat_message compares them.
ModerationCommands ==
    {CmdTtsStop, CmdStop, CmdBlock, CmdBlockAdd, CmdAdminAdd, CmdBlockClear}

\* The step handled a moderation command of a sender who is no admin.
NonAdminCommandStep ==
    /\ ChatStep
    /\ Strip(Lower(last_op'.msg)) \in ModerationCommands
    /\ ~InList(last_op'.user, admin_listbox)

\* C14 (as claimed): a moderation command of a sender who is no admin is a
\* no-operation: the blocked list, the admin list, the queue, the voice
\* preferences, the current speaker and the last speaker are as before, and
\* nothing is put into the queue.
C14_NonAdminNoOp ==
    [][NonAdminCommandStep => ProgramStateUnchanged]_vars

\* C14 (amended): a moderation command of a sender who is no admin, in which
\* the auto-block scan finds no keyword, is a no-operation: the blocked
\* list, the admin list, the queue, the voice preferences, the current
\* speaker and the last speaker are as before, and nothing is put into the
\* queue.
C14_NonAdminNoOpPastScan ==
    [][(NonAdminCommandStep /\ ~(cfg.auto_block /\ AutoBlockHit(last_op'.msg)))
          => ProgramStateUnchanged]_vars

\* C14, the case: a player who is no admin has sent "!block" while another
\* player is the last speaker and an utterance waits in the queue; the
\* command was turned down.
C14_Witness ==
    /\ last_op.op = "chat"
    /\ last_op.eff = "denied"
    /\ Strip(Lower(last_op.msg)) = CmdBlock
    /\ ~InList(last_op.user, admin_listbox)
    /\ last_speaker \in Users \ {last_op.user}
    /\ message_queue # << >>

\* The forms of a voice command: "/v N text", "/trigger text", the legacy
\* "v N text", and a known trigger as the first word.
VoiceCommandPattern(m) ==
    \/ MatchSlashVNum(m)
    \/ StartsWith(m, <<"/">>) /\ SlashWord(m) \in VoiceCommandKeys
    \/ LegacyBareTrigger(m)

\* C15: a chat line that has not the TTS prefix and has the form of a voice
\* command never causes an utterance to be put into the queue.
C15_BareVoiceCommandSilent ==
    [][(/\ ChatStep
        /\ ~StartsWith(Strip(last_op'.msg), TtsPrefix \o <<" ">>)
        /\ VoiceCommandPattern(Strip(last_op'.msg)))
       => NothingNewToSpeak]_vars

\* The voice an utterance resolves to when the worker hands it to a backend:
\* its own voice, else the stored voice of its sender, else the default.
ResolvedVoice(msg) ==
    IF Truthy(msg.voice) THEN msg.voice
    ELSE IF msg.username # None /\ user_voice_preferences[msg.username] # None
    THEN user_voice_preferences[msg.username]
    ELSE cfg.default_voice

\* C16: an utterance whose resolved voice is a "[DECtalk] ..." profile is
\* never handed to the OS backend; whether DECtalk renders it, fails, is
\* stopped or cannot render, the worker goes on without the OS backend
\* getting the text.
C16_NoFallbackToOsVoice ==
    [][(last_op'.op = "W_Dispatch" /\ IsDECtalkVoice(ResolvedVoice(w_msg)))
          => sapi_speech_queue' = sapi_speech_queue]_vars

\* C17: when a trigger is in the command table with an empty voice ("v 5"),
\* the text after it is put into the queue exactly once and is rendered with
\* the configured default voice, not with a one-shot voice and not with the
\* stored voice of the sender, and the stored voice of the sender is not
\* changed, by the handler or by the worker that renders the utterance.
C17_EmptyVoiceUsesDefault ==
    [][/\ \A u \in Users :
             (/\ ChatStep
              /\ last_op'.user = u
              /\ last_op'.msg = MsgTtsV5Hi
              /\ last_op'.eff = "tts")
             => /\ Len(message_queue') = Len(message_queue) + 1
                /\ SubSeq(message_queue', 1, Len(message_queue)) = message_queue
                /\ message_queue'[Len(message_queue')].text = <<"h", "i">>
                /\ message_queue'[Len(message_queue')].username = u
                /\ user_voice_preferences' = user_voice_preferences
       /\ (last_op'.op \in {"W_Resolve", "W_Draw", "W_Dispatch"} /\ w_msg.voice = "")
             => user_voice_preferences' = user_voice_preferences
       /\ (last_op'.op = "W_Dispatch" /\ w_msg.voice = "")
             => /\ current_voice = cfg.default_voice
                /\ sapi_speech_queue' = Append(sapi_speech_queue, w_msg)
      ]_vars

\* The step handled a chat line with an auto-block keyword, of a sender who
\* is not blocked, while auto-block is on.
KeywordStep ==
    /\ ChatStep
    /\ cfg.auto_block
    /\ AutoBlockHit(last_op'.msg)
    /\ ~InList(last_op'.user, blocked_listbox)

\* C18: the auto-block scan comes before command parsing, for admins too.
\* When the line of a sender who is not blocked holds a keyword, the sender
\* is blocked and nothing else is done with the line: no moderation command
\* is executed (nobody else is blocked or unblocked, no admin is added, the
\* utterances of the other players stay in the queue, DECtalk gets no stop),
\* no text of the line is put into the queue, and the last speaker is as
\* before.
C18_ScanBeforeCommands ==
    [][KeywordStep =>
        LET u == last_op'.user
        IN  /\ blocked_listbox' = Append(blocked_listbox, u)
            /\ admin_listbox' = admin_listbox
            /\ last_speaker' = last_speaker
            /\ NothingNewToSpeak
            /\ \A v \in Users \ {u} : Entries(message_queue', v) = Entries(message_queue, v)
            /\ dectalk' = dectalk
      ]_vars

\* C18, the case: an admin has sent "!stop" while "stop" is a keyword; the
\* admin is blocked, and the utterance of another player, who is the last
\* speaker, is still in the queue.
C18_Witness ==
    /\ last_op.op = "chat"
    /\ last_op.eff = "autoblock"
    /\ last_op.msg = MsgStop
    /\ InList(last_op.user, admin_listbox)
    /\ InList(last_op.user, blocked_listbox)
    /\ last_speaker \in Users \ {last_op.user}
    /\ \E i \in 1..Len(message_queue) : message_queue[i].username = last_speaker

\* The player a "!block" (the current speaker, else the last speaker) or an
\* "!admin add" (the last speaker) would act on.
Candidate(command) ==
    IF command \in {CmdBlock, CmdBlockAdd} /\ currently_speaking_user # None
    THEN currently_speaking_user
    ELSE last_speaker

\* The step handled an admin's "!block" or "!admin add" that has no valid
\* target: nobody is speaking and nobody has used TTS since start-up, or the
\* only candidate is the admin who sent the command.
NoTargetStep ==
    /\ ChatStep
    /\ ByActiveAdmin
    /\ Strip(Lower(last_op'.msg)) \in {CmdBlock, CmdBlockAdd, CmdAdminAdd}
    /\ Candidate(Strip(Lower(last_op'.msg))) \in {Unset, None, last_op'.user}

\* C19: an admin's "!block" or "!admin add" without a valid target is a
\* silent no-operation: the handler completes without an error, and the
\* blocked list, the admin list and the queue are as before.
C19_NoTargetSilent ==
    [][NoTargetStep =>
          /\ last_op'.eff # "error"
          /\ UNCHANGED <<blocked_listbox, admin_listbox, message_queue>>]_vars

\* The utterance m comes from a one-shot voice command: it carries a voice
\* that is not the stored voice of its sender, and no stored voice has
\* changed since start-up (a toggle or a random assignment would have
\* changed one).
OneShot(m) ==
    /\ m.username \in Users
    /\ Truthy(m.voice)
    /\ user_voice_preferences = SavedPreferences
    /\ m.voice # SavedPreferences[m.username]

\* C20: a one-shot voice command ("/v 3 hi") whose trigger is mapped to a
\* voice V that is not empty queues the text with V, the utterance is
\* rendered with V whatever the stored voice of the sender is and whether or
\* not random voices are enabled, and neither the handler nor the worker
\* that renders it changes a stored voice.
C20_OneShotOverride ==
    [][/\ \A u \in Users :
             (/\ ChatStep
              /\ last_op'.user = u
              /\ last_op'.msg = MsgTtsV3Hi
              /\ last_op'.eff = "tts")
             => /\ message_queue' =
                       Append(message_queue,
                              Utterance(<<"h", "i">>, voice_commands(TrigV3), u))
                /\ user_voice_preferences' = user_voice_preferences
       /\ (last_op'.op \in {"W_Resolve", "W_Draw", "W_Dispatch"} /\ OneShot(w_msg))
             => user_voice_preferences' = user_voice_preferences
       /\ (last_op'.op = "Sapi_Speak" /\ OneShot(Head(sapi_speech_queue)))
             => sapi_speaking'.voice = Head(sapi_speech_queue).voice
      ]_vars

\* The OS backend still has the utterance m of the worker: in its queue, or
\* being spoken.
BackendBusyWith(m) ==
    \/ \E i \in 1..Len(sapi_speech_queue) :
          /\ sapi_speech_queue[i].text = m.text
          /\ sapi_speech_queue[i].username = m.username
    \/ /\ sapi_speaking # NoMsg
       /\ sapi_speaking.text = m.text
       /\ sapi_speaking.username = m.username

C22_WorkerReturns ==
    /\ (w_pc # "idle") ~> (w_pc = "idle")
    /\ (message_queue # << >>) ~> (last_op.op = "W_Get" \/ message_queue = << >>)

\* C22, the case: the worker has finished with an utterance and is back at
\* a queue that holds the next one.
C22_Witness ==
    /\ last_op.op = "W_Clear"
    /\ w_pc = "idle"
    /\ message_queue # << >>

\* The utterances the OS backend has been handed and has not finished with.
InBackend ==
    {sapi_speech_queue[i] : i \in 1..Len(sapi_speech_queue)}
        \cup (IF sapi_speaking # NoMsg THEN {sapi_speaking} ELSE {})

\* C23: playback is serial.  As long as a backend has not finished with the
\* utterance of user u that the worker handed to it (and has not been
\* stopped), the worker is still in its completion wait for that utterance,
\* the current speaker is u, and no next utterance has been taken from the
\* queue or dispatched.
C23_SerialPlayback ==
    \A e \in InBackend :
        /\ w_pc = "wait"
        /\ w_msg.username = e.username
        /\ w_msg.text = e.text
        /\ currently_speaking_user = e.username

\* The utterances of users other than the one being blocked, in order.
Survivors(q) ==
    SelectSeq(q, LAMBDA m : m.username \in Users /\ m.username # handler.target)

\* C24: the queue passes of "!block" behave as one atomic step beside the
\* worker: when the handler returns, the utterances of the other users that
\* were queued when it began are, in the order the worker took them during
\* the passes followed by the order they have in the queue, each once and in
\* their original order.
C24_DrainAtomic ==
    [][(handler.pc # "idle" /\ handler'.pc = "idle")
          => Survivors(handler.taken \o message_queue') = Survivors(handler.orig)]_vars

\* C25: at most one thread consumes the speech queue: no two threads are at
\* the queue's get at the same time, whatever the sequence of start_tts,
\* stop_tts and reload_tts.
C25_OneConsumer ==
    \A i, j \in ThreadIds :
        (lifecycle.threads[i].pc = "get" /\ lifecycle.threads[j].pc = "get") => i = j

\* A chat line of u that toggles u's voice.
TogglesVoiceOf(u) ==
    /\ ChatStep
    /\ last_op'.user = u
    /\ last_op'.msg \in {MsgTtsToggleHi, MsgToggleHi}

\* C26: once a user has a stored voice preference, only a voice toggle of
\* that user changes it: no random assignment, of the handler or of the
\* worker, replaces it, however their steps interleave.
C26_PreferenceKept ==
    [][\A u \in Users :
          (user_voice_preferences[u] # None
              /\ user_voice_preferences'[u] # user_voice_preferences[u])
              => TogglesVoiceOf(u)]_vars

\* The list names nobody twice.
NoDuplicates(lst) == \A i, j \in 1..Len(lst) : lst[i] = lst[j] => i = j

\* C27: the blocked list and the admin list each contain every user name at
\* most once, whatever commands are repeated.
C27_ListsAreSets == NoDuplicates(blocked_listbox) /\ NoDuplicates(admin_listbox)

\* The utterances of a queue that are not announcements.
Speech(q) == SelectSeq(q, LAMBDA m : m.username # ANN)

\* The chat line handled in this step put an utterance on the queue.
CausedSpeech == ChatStep /\ Len(Speech(message_queue')) > Len(Speech(message_queue))

\* C28: the last speaker changes only with a chat line that caused an
\* utterance to be queued, and is then that line's sender; a line that queues
\* nothing leaves it as it was, and every line that causes speech sets it.
C28_LastSpeakerTracksSpeech ==
    [][ChatStep => IF CausedSpeech
                   THEN last_speaker' = last_op'.user
                   ELSE last_speaker' = last_speaker]_vars

\* C29: the utterance a chat line of user u puts on the queue carries the
\* user name u, whatever the path through the voice commands.
C29_UtteranceCarriesSender ==
    [][CausedSpeech
          => Speech(message_queue')[Len(Speech(message_queue'))].username = last_op'.user]_vars

\* C30: a stop_speech of another thread that arrives while the worker is
\* inside DECtalkNative.speak is not lost: the playback of that utterance
\* does not run to its end, it ends stopped (speak returns False).
C30_StopNotLost ==
    [][(last_op'.op = "W_DectalkPlayed" /\ w_msg.stopped_in_speak)
          => dectalk.stop_requested]_vars

====
